---- MODULE Spec2Model ----
(***************************************************************************)
(* Model of BasicBot.place_order (src/bot.py): the pre-trade validation    *)
(* and order-construction pipeline, together with the Exchange Gateway     *)
(* calls it makes (get_account, get_symbol_ticker, create_order,           *)
(* get_order).                                                             *)
(*                                                                         *)
(* Numbers.  Python floats are modelled as exact numbers over the          *)
(* integers.  The 1% buffer (x 1.01) and the percentage (/ cp x 100) are   *)
(* compared by cross-multiplication, so no rounding is introduced:         *)
(*   quote_balance < quantity * cp * 1.01                                  *)
(*        <=>  quote_balance * 100 < quantity * cp * 101                   *)
(*   abs(price - cp) / cp * 100 > 20                                       *)
(*        <=>  abs(price - cp) * 100 > 20 * cp          (cp > 0)           *)
(* An optional argument (None or a value) is a sequence: <<>> or <<v>>.    *)
(* A symbol or an asset name is a sequence of one-character strings, so    *)
(* that slicing and endswith are computed as the code computes them.       *)
(***************************************************************************)
EXTENDS Integers, Sequences, FiniteSets, TLC

VARIABLES
    account,        \* exchange state: the list client.get_account()['balances']
    marketPrice,    \* exchange state: the price client.get_symbol_ticker() reports
    pc,             \* position of the place_order invocation
    intent,         \* the arguments as the caller passed them
    args,           \* the locals symbol, side, order_type, ... after normalisation
    held,           \* local quote_balance (BUY) or base_balance (SELL)
    current_price,  \* local current_price: <<>> until assigned
    order_params,   \* local order_params: <<>> until built, then <<dict>>
    order_response, \* local order_response: <<>> until create_order returned
    calls,          \* gateway operations invoked so far, in order
    submitted,      \* the keyword arguments create_order was invoked with
    balanceGuard,   \* "none", "pass" or "fail": outcome of lines 175 / 193
    deviationGuard, \* "none", "pass" or "fail": outcome of line 203
    result,         \* what the invocation delivered to its caller
    operation,      \* the operation of BasicBot the caller invoked
    pair,           \* locals base_asset and quote_asset: <<>> until assigned
    gatewayError,   \* the exception a gateway call raised: <<>> or <<e>>
    summaries,      \* what the calls of format_order_summary returned, in order
    workers,        \* the locals of each of two concurrent place_order invocations
    gui,            \* the GUI: its form, threads, pending callbacks and UI mutations
    cli             \* one run of place_order_interactive: its position and locals

\* state outside the one place_order invocation
elsewhere == <<summaries, workers, gui, cli>>

vars == <<account, marketPrice, pc, intent, args, held, current_price,
          order_params, order_response, calls, submitted, balanceGuard,
          deviationGuard, result, operation, pair,
          gatewayError, elsewhere>>

(***************************************************************************)
(* Bounds of the model                                                     *)
(***************************************************************************)
MaxQty == 2
MaxSymbolLen == 5
MaxSummaries == 2
MaxClicks == 2

(***************************************************************************)
(* Program constants                                                       *)
(***************************************************************************)
BufferPct == 101
MaxDeviationPct == 20
Micro == 1000000

None == <<>>
Some(v) == <<v>>

USDT == <<"U", "S", "D", "T">>
BTC == <<"B", "T", "C">>
ETH == <<"E", "T", "H">>
BTCUSDT == <<"B", "T", "C", "U", "S", "D", "T">>
ethbtc == <<"e", "t", "h", "b", "t", "c">>
ETHBTC == <<"E", "T", "H", "B", "T", "C">>

(***************************************************************************)
(* Python string operations on sequences of characters                     *)
(***************************************************************************)
LowerChars == <<"b", "c", "d", "e", "h", "s", "t", "u">>
UpperChars == <<"B", "C", "D", "E", "H", "S", "T", "U">>

\* str.upper() on one character
UpperChar(c) ==
    IF \E i \in 1..Len(LowerChars) : LowerChars[i] = c
    THEN UpperChars[CHOOSE i \in 1..Len(LowerChars) : LowerChars[i] = c]
    ELSE c

\* symbol.upper()
str_upper(s) == [i \in 1..Len(s) |-> UpperChar(s[i])]

\* side.upper() and order_type.upper() on the words the callers use
word_upper(w) ==
    CASE w = "buy" -> "BUY"
      [] w = "sell" -> "SELL"
      [] w = "market" -> "MARKET"
      [] w = "limit" -> "LIMIT"
      [] OTHER -> w

\* a slice bound as Python normalises it: negative counts from the end
SliceIndex(s, i) ==
    IF i < 0
    THEN (IF i + Len(s) < 0 THEN 0 ELSE i + Len(s))
    ELSE (IF i > Len(s) THEN Len(s) ELSE i)

\* s[:stop]
SliceTo(s, stop) == SubSeq(s, 1, SliceIndex(s, stop))

\* s[start:]
SliceFrom(s, start) == SubSeq(s, SliceIndex(s, start) + 1, Len(s))

\* s.endswith(suffix)
endswith(s, suffix) ==
    /\ Len(s) >= Len(suffix)
    /\ SubSeq(s, Len(s) - Len(suffix) + 1, Len(s)) = suffix

(***************************************************************************)
(* Symbol resolution (lines 154, 155, 182)                                 *)
(***************************************************************************)
quote_asset(symbol) ==
    IF endswith(symbol, USDT) THEN SliceFrom(symbol, Len(symbol) - 4) ELSE USDT

base_asset(symbol) ==
    IF endswith(symbol, USDT)
    THEN SliceTo(symbol, Len(symbol) - 4)
    ELSE SliceTo(symbol, Len(symbol) - 3)

\* the locals the branch taken binds: both for a BUY (lines 154-155), only
\* base_asset for a SELL (line 182)
AssetPair(side, symbol) ==
    IF side = "BUY"
    THEN [base |-> base_asset(symbol), quote |-> quote_asset(symbol)]
    ELSE [base |-> base_asset(symbol)]

(***************************************************************************)
(* Input validation (lines 143-149)                                        *)
(***************************************************************************)
valid_order_types ==
    {"MARKET", "LIMIT", "STOP", "STOP_MARKET", "TAKE_PROFIT", "TAKE_PROFIT_MARKET"}

\* mutant: the side is not validated
ValidSide_Any(side) == TRUE

ValidSide(side) == side \in {"BUY", "SELL"}

\* mutant: the order type is not validated
ValidOrderType_Any(order_type) == TRUE

ValidOrderType(order_type) == order_type \in valid_order_types

(***************************************************************************)
(* Balance Guard (lines 152-196)                                           *)
(***************************************************************************)
\* mutant: the locked amount is counted as spendable
RECURSIVE FreeBalance_PlusLocked(_, _)
FreeBalance_PlusLocked(balances, asset) ==
    IF balances = <<>> THEN 0
    ELSE IF Head(balances).asset = asset
    THEN Head(balances).free + Head(balances).locked
    ELSE FreeBalance_PlusLocked(Tail(balances), asset)

\* the loop of lines 161-164 / 188-191: the free amount of the first entry
\* of the list that names the asset, 0 when no entry does
RECURSIVE FreeBalance(_, _)
FreeBalance(balances, asset) ==
    IF balances = <<>> THEN 0
    ELSE IF Head(balances).asset = asset THEN Head(balances).free
    ELSE FreeBalance(Tail(balances), asset)

\* mutant: the 1% buffer of a MARKET order is dropped
RequiredAmount100_NoBuffer(order_type, quantity, price, cp) ==
    IF order_type = "MARKET"
    THEN quantity * cp * 100
    ELSE quantity * price * 100

\* required_amount of lines 167-173, times 100
RequiredAmount100(order_type, quantity, price, cp) ==
    IF order_type = "MARKET"
    THEN quantity * cp * BufferPct
    ELSE quantity * price * 100

\* mutant: <= instead of <
InsufficientQuote_OrEqual(quote_balance, required100) ==
    quote_balance * 100 <= required100

\* line 175: quote_balance < required_amount
InsufficientQuote(quote_balance, required100) == quote_balance * 100 < required100

\* line 193: base_balance < quantity
InsufficientBase(base_balance, quantity) == base_balance < quantity

(***************************************************************************)
(* Price Deviation Guard (lines 199-208)                                   *)
(***************************************************************************)
Abs(x) == IF x < 0 THEN -x ELSE x

\* mutant: the guard applies to every order type that has a price
DeviationApplies_AnyType(order_type, price) == price # None

\* line 199: the guard applies
DeviationApplies(order_type, price) == order_type = "LIMIT" /\ price # None

\* mutant: >= instead of >
DeviationTooLarge_OrEqual(price, cp) == Abs(price - cp) * 100 >= MaxDeviationPct * cp

\* lines 201, 203: abs(price - current_price) / current_price * 100 > 20
DeviationTooLarge(price, cp) == Abs(price - cp) * 100 > MaxDeviationPct * cp

(***************************************************************************)
(* Order Request Builder (lines 211-229)                                   *)
(***************************************************************************)
StopOrderTypes == {"STOP", "STOP_MARKET", "TAKE_PROFIT", "TAKE_PROFIT_MARKET"}

\* line 219-220
MissingPrice(order_type, price) == order_type = "LIMIT" /\ price = None

\* line 226-227
MissingStopPrice(order_type, stop_price) ==
    order_type \in StopOrderTypes /\ stop_price = None

\* lines 211-216
BaseParams(a) ==
    [symbol |-> a.symbol, side |-> a.side, type |-> a.order_type,
     quantity |-> a.quantity]

\* mutant: price and timeInForce are attached whenever a price was given
WithLimitFields_AnyPrice(a, p) ==
    IF a.price # None
    THEN p @@ [price |-> a.price[1], timeInForce |-> a.time_in_force]
    ELSE p

\* lines 219-223
WithLimitFields(a, p) ==
    IF a.order_type = "LIMIT"
    THEN p @@ [price |-> a.price[1], timeInForce |-> a.time_in_force]
    ELSE p

\* lines 226-229
WithStopFields(a, p) ==
    IF a.order_type \in StopOrderTypes
    THEN p @@ [stopPrice |-> a.stop_price[1]]
    ELSE p

OrderParams(a) == WithStopFields(a, WithLimitFields(a, BaseParams(a)))

(***************************************************************************)
(* Exceptions and the except clauses of place_order (lines 250-263)        *)
(***************************************************************************)
ValueError(msg) == [exc |-> "ValueError", message |-> msg]

\* line 173 with price None: quantity * None
TypeError == [exc |-> "TypeError", message |-> "unsupported operand type(s) for *"]

\* line 176: the price max_possible is computed against
ReferencePrice(order_type, price, cp) ==
    IF order_type = "MARKET" THEN cp ELSE price

\* mutant: the suggestion is computed against the price with the 1% buffer
MaxPossibleMicro_Buffered(quote_balance, ref) ==
    (((2 * quote_balance * Micro + ref) \div (2 * ref)) * 100) \div BufferPct

\* lines 176, 178: max_possible = quote_balance / ref, rendered by
\* {max_possible:.6f}: the quotient rounded to the nearest millionth, held
\* here as a whole number of millionths
MaxPossibleMicro(quote_balance, ref) ==
    (2 * quote_balance * Micro + ref) \div (2 * ref)

\* lines 177-179: the BUY message names quote_balance, quote_asset,
\* required_amount, the suggested quantity and base_asset
InsufficientBalance(asset, have, need100, suggest, base) ==
    [exc |-> "Exception", message |-> "Insufficient balance",
     asset |-> asset, held |-> have, required100 |-> need100,
     max_possible_micro |-> suggest, unit |-> base]

\* lines 194-196: the SELL message names base_balance, base_asset, quantity
\* and base_balance again as the suggested quantity
InsufficientBaseBalance(asset, have, quantity) ==
    [exc |-> "Exception", message |-> "Insufficient balance",
     asset |-> asset, held |-> have, wanted |-> quantity, max_possible |-> have]

\* lines 204-208
PriceDeviation(price, cp) ==
    [exc |-> "Exception", message |-> "too far from current market price",
     price |-> price, current_price |-> cp]

\* what a gateway call can raise: an exchange-reported error, an order error,
\* or a transport failure
GatewayFailures ==
    {[exc |-> "BinanceAPIException", code |-> -1013, message |-> "Filter failure"],
     [exc |-> "BinanceOrderException", code |-> -1014, message |-> "Unsupported order"],
     [exc |-> "ConnectionError", message |-> "Connection refused"]}

\* the message prefix each except clause puts in front (lines 251, 256, 261)
ErrorPrefix(e) ==
    CASE e.exc = "BinanceAPIException" -> "Binance API error: "
      [] e.exc = "BinanceOrderException" -> "Order error: "
      [] OTHER -> "Failed to place order: "

\* str(e) of line 261: the text of an exception that is no exchange error
Str(e) == e.message

\* mutant: the exchange's code is left out of the text
ErrorText_NoCode(e) == <<ErrorPrefix(e), Str(e)>>

\* error_msg of lines 251, 256, 261: the parts the f-string puts together
ErrorText(e) ==
    IF e.exc \in {"BinanceAPIException", "BinanceOrderException"}
    THEN <<ErrorPrefix(e), e.message, " (Code: ", e.code, ")">>
    ELSE <<ErrorPrefix(e), Str(e)>>

\* raise Exception(error_msg) of lines 253, 258, 263
Raise(e) ==
    /\ pc' = "done"
    /\ result' = [status |-> "raised", prefix |-> ErrorPrefix(e), cause |-> e,
                  text |-> ErrorText(e)]

\* a gateway call raised e inside the try block of place_order
GatewayRaise(e) ==
    /\ Raise(e)
    /\ gatewayError' = Some(e)

IsGatewayFailure(r) == r.status = "raised" /\ r.cause \in GatewayFailures

(***************************************************************************)
(* Inputs                                                                  *)
(***************************************************************************)
Symbols == {BTCUSDT, ethbtc, <<>>}
Sides == {"BUY", "sell", "HOLD"}
OrderTypes == valid_order_types \cup {"OCO", "limit"}
Quantities == 1..MaxQty
Prices == {None, Some(79), Some(80), Some(120), Some(121)}
StopPrices == {None, Some(90)}
TimesInForce == {"GTC", "IOC"}
\* float(ticker['price']) as the exchange reports it: a positive price
MarketPrices == {100}

\* account_info['balances'] as the exchange may report it
QuoteHoldings ==
    {<<>>,
     <<[asset |-> USDT, free |-> 0, locked |-> 300]>>,
     <<[asset |-> USDT, free |-> 79, locked |-> 0]>>,
     <<[asset |-> USDT, free |-> 100, locked |-> 300]>>,
     <<[asset |-> USDT, free |-> 101, locked |-> 0]>>,
     <<[asset |-> USDT, free |-> 250, locked |-> 0]>>}
BtcHoldings ==
    {<<>>,
     <<[asset |-> BTC, free |-> 0, locked |-> 5]>>,
     <<[asset |-> BTC, free |-> 1, locked |-> 0]>>,
     <<[asset |-> BTC, free |-> 2, locked |-> 1]>>}
EthHoldings ==
    {<<>>,
     <<[asset |-> ETH, free |-> 1, locked |-> 2]>>}
\* snapshots that list assets of which nothing is held
ZeroBalanceAccounts ==
    {<<[asset |-> ETH, free |-> 0, locked |-> 0],
       [asset |-> BTC, free |-> 1, locked |-> 0],
       [asset |-> USDT, free |-> 0, locked |-> 0]>>,
     <<[asset |-> USDT, free |-> 0, locked |-> 300],
       [asset |-> ETH, free |-> 0, locked |-> 0],
       [asset |-> BTC, free |-> 2, locked |-> 1]>>}
Accounts ==
    {b \o q \o e : b \in BtcHoldings, q \in QuoteHoldings, e \in EthHoldings}
        \cup ZeroBalanceAccounts

(***************************************************************************)
(* State machine of one place_order invocation                             *)
(***************************************************************************)
\* nothing has happened outside the invocation
ElsewhereIdle ==
    /\ summaries = <<>>
    /\ workers = <<>>
    /\ gui = <<>>
    /\ cli = <<>>

Init ==
    /\ account \in Accounts
    /\ marketPrice \in MarketPrices
    /\ pc = "idle"
    /\ intent = None
    /\ args = None
    /\ held = None
    /\ current_price = None
    /\ order_params = None
    /\ order_response = None
    /\ calls = <<>>
    /\ submitted = <<>>
    /\ balanceGuard = "none"
    /\ deviationGuard = "none"
    /\ result = [status |-> "none"]
    /\ operation = "none"
    /\ pair = None
    /\ gatewayError = None
    /\ ElsewhereIdle

\* lines 210-229, up to the call of create_order
Build(a) ==
    IF MissingPrice(a.order_type, a.price)
    THEN Raise(ValueError("Price is required for LIMIT orders"))
         /\ UNCHANGED order_params
    ELSE IF MissingStopPrice(a.order_type, a.stop_price)
    THEN Raise(ValueError("Stop price is required"))
         /\ UNCHANGED order_params
    ELSE /\ pc' = "create_order"
         /\ order_params' = Some(OrderParams(a))
         /\ UNCHANGED result

\* lines 198-200: after the Balance Guard passed
AfterBalance(a) ==
    IF DeviationApplies(a.order_type, a.price)
    THEN pc' = "get_price_deviation" /\ UNCHANGED <<order_params, result>>
    ELSE Build(a)

\* lines 175-179 and 193-196: the verdict of the Balance Guard
BalanceVerdict(a, insufficient, e) ==
    IF insufficient
    THEN balanceGuard' = "fail" /\ Raise(e) /\ UNCHANGED order_params
    ELSE balanceGuard' = "pass" /\ AfterBalance(a)

\* lines 136-149: the call, normalisation and the validation of side and type
PlaceOrder ==
    /\ pc = "idle"
    /\ \E symbol \in Symbols, side \in Sides, order_type \in OrderTypes,
          quantity \in Quantities, price \in Prices, stop_price \in StopPrices,
          time_in_force \in TimesInForce :
          LET a == [symbol |-> str_upper(symbol), side |-> word_upper(side),
                    order_type |-> word_upper(order_type), quantity |-> quantity,
                    price |-> price, stop_price |-> stop_price,
                    time_in_force |-> time_in_force]
          IN /\ intent' = Some([symbol |-> symbol, side |-> side,
                                order_type |-> order_type, quantity |-> quantity,
                                price |-> price, stop_price |-> stop_price,
                                time_in_force |-> time_in_force])
             /\ args' = a
             /\ IF ~ValidSide(a.side)
                THEN Raise(ValueError("Side must be 'BUY' or 'SELL'"))
                ELSE IF ~ValidOrderType(a.order_type)
                THEN Raise(ValueError("Order type must be one of: valid_order_types"))
                ELSE pc' = "get_account" /\ UNCHANGED result
    /\ operation' = "place_order"
    /\ UNCHANGED <<elsewhere, account, marketPrice, held, current_price, order_params,
                   order_response, calls, submitted, balanceGuard, deviationGuard,
                   pair, gatewayError>>

\* lines 158-164 (BUY) and 185-191 (SELL): client.get_account() and the loop
\* over the balances; then lines 171-179 or 193-196 when no price is fetched
\* (for a non-MARKET BUY current_price is not bound at line 173, so no market
\* price is handed to RequiredAmount100; quantity * None raises TypeError)
GetAccount ==
    /\ pc = "get_account"
    /\ calls' = Append(calls, "get_account")
    /\ pair' = Some(AssetPair(args.side, args.symbol))
    /\ \/ \E f \in GatewayFailures :
            GatewayRaise(f) /\ UNCHANGED <<held, balanceGuard, order_params>>
       \/ LET asset == IF args.side = "BUY" THEN quote_asset(args.symbol)
                       ELSE base_asset(args.symbol)
              bal == FreeBalance(account, asset)
          IN /\ held' = Some(bal)
             /\ UNCHANGED gatewayError
             /\ IF args.side = "BUY" /\ args.order_type = "MARKET"
                THEN pc' = "get_price_balance"
                     /\ UNCHANGED <<balanceGuard, order_params, result>>
                ELSE IF args.side = "BUY" /\ args.price = None
                THEN Raise(TypeError) /\ UNCHANGED <<balanceGuard, order_params>>
                ELSE IF args.side = "BUY"
                THEN LET need == RequiredAmount100(args.order_type, args.quantity,
                                                   args.price[1], 0)
                         ref == ReferencePrice(args.order_type, args.price[1], 0)
                     IN BalanceVerdict(args, InsufficientQuote(bal, need),
                                       InsufficientBalance(asset, bal, need,
                                           MaxPossibleMicro(bal, ref),
                                           base_asset(args.symbol)))
                ELSE BalanceVerdict(args, InsufficientBase(bal, args.quantity),
                                    InsufficientBaseBalance(asset, bal, args.quantity))
    /\ UNCHANGED <<elsewhere, account, marketPrice, intent, args, current_price,
                   order_response, submitted, deviationGuard, operation>>

\* lines 169-179: get_current_price for a MARKET BUY, then the Balance Guard
GetPriceForBalance ==
    /\ pc = "get_price_balance"
    /\ calls' = Append(calls, "get_symbol_ticker")
    /\ \/ \E f \in GatewayFailures :
            GatewayRaise(f) /\ UNCHANGED <<current_price, balanceGuard, order_params>>
       \/ LET need == RequiredAmount100(args.order_type, args.quantity, 0, marketPrice)
          IN /\ current_price' = Some(marketPrice)
             /\ UNCHANGED gatewayError
             /\ BalanceVerdict(args, InsufficientQuote(held[1], need),
                               InsufficientBalance(quote_asset(args.symbol), held[1], need,
                                   MaxPossibleMicro(held[1],
                                       ReferencePrice(args.order_type, 0, marketPrice)),
                                   base_asset(args.symbol)))
    /\ UNCHANGED <<elsewhere, account, marketPrice, intent, args, held, order_response,
                   submitted, deviationGuard, operation, pair>>

\* lines 200-208: get_current_price for a LIMIT order with a price, then the
\* Price Deviation Guard
GetPriceForDeviation ==
    /\ pc = "get_price_deviation"
    /\ calls' = Append(calls, "get_symbol_ticker")
    /\ \/ \E f \in GatewayFailures :
            GatewayRaise(f) /\ UNCHANGED <<current_price, deviationGuard, order_params>>
       \/ /\ current_price' = Some(marketPrice)
          /\ UNCHANGED gatewayError
          /\ IF DeviationTooLarge(args.price[1], marketPrice)
             THEN /\ deviationGuard' = "fail"
                  /\ Raise(PriceDeviation(args.price[1], marketPrice))
                  /\ UNCHANGED order_params
             ELSE /\ deviationGuard' = "pass"
                  /\ Build(args)
    /\ UNCHANGED <<elsewhere, account, marketPrice, intent, args, held, order_response,
                   submitted, balanceGuard, operation, pair>>

\* lines 237-240: client.create_order(**order_params)
CreateOrder ==
    /\ pc = "create_order"
    /\ calls' = Append(calls, "create_order")
    /\ submitted' = Append(submitted, order_params[1])
    /\ \/ \E f \in GatewayFailures : GatewayRaise(f) /\ UNCHANGED order_response
       \/ /\ order_response' = Some([orderId |-> 1] @@ order_params[1])
          /\ pc' = "get_order"
          /\ UNCHANGED <<result, gatewayError>>
    /\ UNCHANGED <<elsewhere, account, marketPrice, intent, args, held, current_price,
                   order_params, balanceGuard, deviationGuard, operation, pair>>

\* lines 243-248 and 265-275: get_order_details, then the return
GetOrderDetails ==
    /\ pc = "get_order"
    /\ calls' = Append(calls, "get_order")
    /\ \/ \E f \in GatewayFailures : GatewayRaise(f)
       \/ /\ pc' = "done"
          /\ result' = [status |-> "returned",
                        order_response |-> order_response[1],
                        order_details |-> order_response[1]]
          /\ UNCHANGED gatewayError
    /\ UNCHANGED <<elsewhere, account, marketPrice, intent, args, held, current_price,
                   order_params, order_response, submitted, balanceGuard,
                   deviationGuard, operation, pair>>

Next ==
    \/ PlaceOrder
    \/ GetAccount
    \/ GetPriceForBalance
    \/ GetPriceForDeviation
    \/ CreateOrder
    \/ GetOrderDetails

Spec == Init /\ [][Next]_vars

(***************************************************************************)
(* The other operations of BasicBot (lines 89-111 and 265-342).  Each is   *)
(* one gateway call inside try / except Exception: log, then re-raise.     *)
(***************************************************************************)
\* what the exchange holds besides the balances
ExchangeSymbols == <<[symbol |-> BTCUSDT], [symbol |-> ETHBTC]>>
ExchangeOpenOrders ==
    <<[orderId |-> 1, symbol |-> BTCUSDT], [orderId |-> 2, symbol |-> ETHBTC]>>
OrderIds == {1, 2}
OptionalSymbols == {None} \cup {Some(sym) : sym \in Symbols}

\* mutant: the exception is logged and swallowed
Reraise_Swallow(e) ==
    /\ pc' = "done"
    /\ result' = [status |-> "returned", value |-> None]

\* the bare raise of lines 98, 111, 275, 288, 302, 331, 342
Reraise(e) ==
    /\ pc' = "done"
    /\ result' = [status |-> "raised", cause |-> e]

\* return value
Return(v) ==
    /\ pc' = "done"
    /\ result' = [status |-> "returned", value |-> v]

\* entry of an operation other than place_order: nothing of an order is touched
Invoke(name, arguments) ==
    /\ operation' = name
    /\ intent' = Some(arguments)
    /\ UNCHANGED <<elsewhere, account, marketPrice, args, held, current_price, order_params,
                   order_response, submitted, balanceGuard, deviationGuard, pair>>

\* the one gateway call of an operation: either the gateway raises and the
\* operation re-raises, or the operation returns `value`
GatewayCall(gateway, value) ==
    /\ calls' = Append(calls, gateway)
    /\ \/ \E f \in GatewayFailures : Reraise(f) /\ gatewayError' = Some(f)
       \/ Return(value) /\ UNCHANGED gatewayError

\* a in s for strings
IsSubstring(a, s) ==
    \E i \in 0..(Len(s) - Len(a)) : SubSeq(s, i + 1, i + Len(a)) = a

\* line 319: the filter on the symbol argument
MatchesSymbol(asset, symbol) ==
    \/ symbol = None
    \/ IsSubstring(asset, str_upper(symbol[1]))
    \/ asset \o USDT = str_upper(symbol[1])

\* mutant: only the free amount decides whether an asset is held
RECURSIVE ActivePositions_FreeOnly(_, _)
ActivePositions_FreeOnly(balances, symbol) ==
    IF balances = <<>> THEN <<>>
    ELSE LET b == Head(balances)
             rest == ActivePositions_FreeOnly(Tail(balances), symbol)
         IN IF b.free > 0 /\ MatchesSymbol(b.asset, symbol)
            THEN <<[asset |-> b.asset, free |-> b.free, locked |-> b.locked,
                    total |-> b.free + b.locked]>> \o rest
            ELSE rest

\* lines 311-325: the loop that collects active_positions
RECURSIVE ActivePositions(_, _)
ActivePositions(balances, symbol) ==
    IF balances = <<>> THEN <<>>
    ELSE LET b == Head(balances)
             rest == ActivePositions(Tail(balances), symbol)
         IN IF b.free + b.locked > 0 /\ MatchesSymbol(b.asset, symbol)
            THEN <<[asset |-> b.asset, free |-> b.free, locked |-> b.locked,
                    total |-> b.free + b.locked]>> \o rest
            ELSE rest

\* lines 333-342
CallGetCurrentPrice ==
    \E symbol \in Symbols :
        /\ pc = "idle"
        /\ Invoke("get_current_price", [symbol |-> symbol])
        /\ GatewayCall("get_symbol_ticker", marketPrice)

\* lines 89-98
CallGetAccountBalance ==
    /\ pc = "idle"
    /\ Invoke("get_account_balance", [symbol |-> None])
    /\ GatewayCall("get_account", account)

\* lines 304-331
CallGetPositionInfo ==
    \E symbol \in OptionalSymbols :
        /\ pc = "idle"
        /\ Invoke("get_position_info", [symbol |-> symbol])
        /\ GatewayCall("get_account", ActivePositions(account, symbol))

\* lines 290-302
CallGetOpenOrders ==
    \E symbol \in OptionalSymbols :
        /\ pc = "idle"
        /\ Invoke("get_open_orders", [symbol |-> symbol])
        /\ GatewayCall("get_open_orders",
                       SelectSeq(ExchangeOpenOrders,
                                 LAMBDA o : symbol = None \/ o.symbol = str_upper(symbol[1])))

\* lines 277-288
CallCancelOrder ==
    \E symbol \in Symbols, order_id \in OrderIds :
        /\ pc = "idle"
        /\ Invoke("cancel_order", [symbol |-> symbol, order_id |-> order_id])
        /\ GatewayCall("cancel_order",
                       [orderId |-> order_id, symbol |-> str_upper(symbol),
                        status |-> "CANCELED"])

\* lines 265-275
CallGetOrderDetails ==
    \E symbol \in Symbols, order_id \in OrderIds :
        /\ pc = "idle"
        /\ Invoke("get_order_details", [symbol |-> symbol, order_id |-> order_id])
        /\ GatewayCall("get_order",
                       [orderId |-> order_id, symbol |-> str_upper(symbol)])

\* lines 100-111: the symbol is looked up in the exchange's list; a symbol
\* that is not listed raises ValueError, which is logged and re-raised
CallGetSymbolInfo ==
    \E symbol \in Symbols :
        /\ pc = "idle"
        /\ Invoke("get_symbol_info", [symbol |-> symbol])
        /\ calls' = Append(calls, "get_exchange_info")
        /\ \/ \E f \in GatewayFailures : Reraise(f) /\ gatewayError' = Some(f)
           \/ LET found == SelectSeq(ExchangeSymbols,
                                     LAMBDA i : i.symbol = str_upper(symbol))
              IN /\ IF found # <<>> THEN Return(Head(found))
                    ELSE Reraise(ValueError("Symbol not found"))
                 /\ UNCHANGED gatewayError

NextCore ==
    \/ Next
    \/ CallGetCurrentPrice
    \/ CallGetAccountBalance
    \/ CallGetPositionInfo
    \/ CallGetOpenOrders
    \/ CallCancelOrder
    \/ CallGetOrderDetails
    \/ CallGetSymbolInfo

SpecCore == Init /\ [][NextCore]_vars

(***************************************************************************)
(* Symbol resolution on its own: lines 154-155 (BUY) and 182 (SELL)        *)
(* applied to every upper-cased symbol of a bounded length                 *)
(***************************************************************************)
SymbolChars == {"A", "U", "S", "D", "T"}

ResolveSymbols == UNION {[1..n -> SymbolChars] : n \in 0..MaxSymbolLen}

ResolveInit ==
    /\ account = <<>>
    /\ marketPrice \in MarketPrices
    /\ pc = "resolve"
    /\ intent = None
    /\ \E symbol \in ResolveSymbols, side \in {"BUY", "SELL"} :
          args = [symbol |-> symbol, side |-> side]
    /\ held = None
    /\ current_price = None
    /\ order_params = None
    /\ order_response = None
    /\ calls = <<>>
    /\ submitted = <<>>
    /\ balanceGuard = "none"
    /\ deviationGuard = "none"
    /\ result = [status |-> "none"]
    /\ operation = "place_order"
    /\ pair = None
    /\ gatewayError = None
    /\ ElsewhereIdle

\* lines 154-155
ResolveBuy ==
    /\ pc = "resolve"
    /\ args.side = "BUY"
    /\ pair' = Some(AssetPair(args.side, args.symbol))
    /\ pc' = "resolved"
    /\ UNCHANGED <<elsewhere, account, marketPrice, intent, args, held, current_price,
                   order_params, order_response, calls, submitted, balanceGuard,
                   deviationGuard, result, operation, gatewayError>>

\* line 182
ResolveSell ==
    /\ pc = "resolve"
    /\ args.side = "SELL"
    /\ pair' = Some(AssetPair(args.side, args.symbol))
    /\ pc' = "resolved"
    /\ UNCHANGED <<elsewhere, account, marketPrice, intent, args, held, current_price,
                   order_params, order_response, calls, submitted, balanceGuard,
                   deviationGuard, result, operation, gatewayError>>

ResolveNext == ResolveBuy \/ ResolveSell

SpecResolve == ResolveInit /\ [][ResolveNext]_vars

(***************************************************************************)
(* Two place_order invocations running concurrently on one bot (threads of *)
(* the GUI, lines 113-263 run by each).  Every local of place_order is a   *)
(* field of the invocation's own record; the exchange is shared.  A step   *)
(* is one gateway call with the code that follows it up to the next call.  *)
(***************************************************************************)
Workers == {1, 2}

\* the locals before the call; seen_account and seen_price keep what the
\* gateway answered to this invocation
IdleWorker ==
    [pc |-> "idle", args |-> None, held |-> None, current_price |-> None,
     order_params |-> None, order_response |-> None, balanceGuard |-> "none",
     deviationGuard |-> "none", result |-> [status |-> "none"],
     seen_account |-> None, seen_price |-> None]

ConcurrentAccounts ==
    {<<[asset |-> BTC, free |-> b, locked |-> 0],
       [asset |-> USDT, free |-> q, locked |-> 0]>> : b \in {1}, q \in {150, 250}}

\* raise Exception(error_msg) of lines 253, 258, 263
Raised(l, e) ==
    [l EXCEPT !.pc = "done",
              !.result = [status |-> "raised", cause |-> e, text |-> ErrorText(e)]]

\* lines 210-229
Built(l) ==
    IF MissingPrice(l.args.order_type, l.args.price)
    THEN Raised(l, ValueError("Price is required for LIMIT orders"))
    ELSE IF MissingStopPrice(l.args.order_type, l.args.stop_price)
    THEN Raised(l, ValueError("Stop price is required"))
    ELSE [l EXCEPT !.pc = "create_order", !.order_params = Some(OrderParams(l.args))]

\* lines 198-200
Balanced(l) ==
    IF DeviationApplies(l.args.order_type, l.args.price)
    THEN [l EXCEPT !.pc = "get_price_deviation"]
    ELSE Built(l)

\* lines 175-179 and 193-196
Verdict(l, insufficient, e) ==
    IF insufficient
    THEN Raised([l EXCEPT !.balanceGuard = "fail"], e)
    ELSE Balanced([l EXCEPT !.balanceGuard = "pass"])

\* lines 136-149
Entered(a) ==
    LET l == [IdleWorker EXCEPT !.args = a]
    IN IF ~ValidSide(a.side)
       THEN Raised(l, ValueError("Side must be 'BUY' or 'SELL'"))
       ELSE IF ~ValidOrderType(a.order_type)
       THEN Raised(l, ValueError("Order type must be one of: valid_order_types"))
       ELSE [l EXCEPT !.pc = "get_account"]

\* lines 158-179 (BUY) and 185-196 (SELL) once get_account answered balances
OnAccount(l, balances) ==
    LET a == l.args
        asset == IF a.side = "BUY" THEN quote_asset(a.symbol) ELSE base_asset(a.symbol)
        bal == FreeBalance(balances, asset)
        m == [l EXCEPT !.held = Some(bal), !.seen_account = Some(balances)]
    IN IF a.side = "BUY" /\ a.order_type = "MARKET"
       THEN [m EXCEPT !.pc = "get_price_balance"]
       ELSE IF a.side = "BUY" /\ a.price = None
       THEN Raised(m, TypeError)
       ELSE IF a.side = "BUY"
       THEN LET need == RequiredAmount100(a.order_type, a.quantity, a.price[1], 0)
            IN Verdict(m, InsufficientQuote(bal, need),
                       InsufficientBalance(asset, bal, need,
                           MaxPossibleMicro(bal,
                               ReferencePrice(a.order_type, a.price[1], 0)),
                           base_asset(a.symbol)))
       ELSE Verdict(m, InsufficientBase(bal, a.quantity),
                    InsufficientBaseBalance(asset, bal, a.quantity))

\* lines 169-179 once get_current_price answered cp
OnPriceForBalance(l, cp) ==
    LET a == l.args
        need == RequiredAmount100(a.order_type, a.quantity, 0, cp)
        m == [l EXCEPT !.current_price = Some(cp), !.seen_price = Some(cp)]
    IN Verdict(m, InsufficientQuote(l.held[1], need),
               InsufficientBalance(quote_asset(a.symbol), l.held[1], need,
                   MaxPossibleMicro(l.held[1], ReferencePrice(a.order_type, 0, cp)),
                   base_asset(a.symbol)))

\* lines 200-208 once get_current_price answered cp
OnPriceForDeviation(l, cp) ==
    LET m == [l EXCEPT !.current_price = Some(cp), !.seen_price = Some(cp)]
    IN IF DeviationTooLarge(l.args.price[1], cp)
       THEN Raised([m EXCEPT !.deviationGuard = "fail"],
                   PriceDeviation(l.args.price[1], cp))
       ELSE Built([m EXCEPT !.deviationGuard = "pass"])

\* the frame of a step of one invocation: the exchange and the state of the
\* sequential model stay
WorkerFrame ==
    UNCHANGED <<summaries, gui, cli, account, marketPrice, pc, intent, args, held,
                current_price, order_params, order_response, calls, submitted,
                balanceGuard, deviationGuard, result, operation, pair, gatewayError>>

ConcurrentInit ==
    /\ account \in ConcurrentAccounts
    /\ marketPrice \in MarketPrices
    /\ pc = "idle"
    /\ intent = None
    /\ args = None
    /\ held = None
    /\ current_price = None
    /\ order_params = None
    /\ order_response = None
    /\ calls = <<>>
    /\ submitted = <<>>
    /\ balanceGuard = "none"
    /\ deviationGuard = "none"
    /\ result = [status |-> "none"]
    /\ operation = "place_order"
    /\ pair = None
    /\ gatewayError = None
    /\ summaries = <<>>
    /\ gui = <<>>
    /\ cli = <<>>
    /\ workers = [w \in Workers |-> IdleWorker]

\* a thread calls place_order
WorkerPlaceOrder(w) ==
    /\ workers[w].pc = "idle"
    /\ \E a \in [symbol : {BTCUSDT}, side : {"BUY", "SELL"},
                  order_type : {"MARKET", "LIMIT"}, quantity : {1, 2},
                  price : {Some(80), Some(121)}, stop_price : {None},
                  time_in_force : {"GTC"}] :
          workers' = [workers EXCEPT ![w] = Entered(a)]
    /\ WorkerFrame

\* mutant: the balance read is kept in one place shared by the invocations
WorkerGetAccount_SharedBalance(w) ==
    /\ workers[w].pc = "get_account"
    /\ \/ \E f \in GatewayFailures :
            workers' = [workers EXCEPT ![w] = Raised(@, f)]
       \/ LET l == OnAccount(workers[w], account)
          IN workers' = [v \in Workers |->
                            IF v = w THEN l
                            ELSE IF workers[v].held # None
                            THEN [workers[v] EXCEPT !.held = l.held]
                            ELSE workers[v]]
    /\ WorkerFrame

\* mutant: the balance is read only while no other invocation is between
\* its balance read and its submission
WorkerGetAccount_Locked(w) ==
    /\ workers[w].pc = "get_account"
    /\ \A v \in Workers \ {w} :
           workers[v].pc \notin {"get_price_balance", "get_price_deviation",
                                 "create_order"}
    /\ \/ \E f \in GatewayFailures :
            workers' = [workers EXCEPT ![w] = Raised(@, f)]
       \/ workers' = [workers EXCEPT ![w] = OnAccount(@, account)]
    /\ WorkerFrame

\* lines 158 / 185: client.get_account()
WorkerGetAccount(w) ==
    /\ workers[w].pc = "get_account"
    /\ \/ \E f \in GatewayFailures :
            workers' = [workers EXCEPT ![w] = Raised(@, f)]
       \/ workers' = [workers EXCEPT ![w] = OnAccount(@, account)]
    /\ WorkerFrame

\* line 169: self.get_current_price(symbol)
WorkerGetPriceForBalance(w) ==
    /\ workers[w].pc = "get_price_balance"
    /\ \/ \E f \in GatewayFailures :
            workers' = [workers EXCEPT ![w] = Raised(@, f)]
       \/ workers' = [workers EXCEPT ![w] = OnPriceForBalance(@, marketPrice)]
    /\ WorkerFrame

\* line 200: self.get_current_price(symbol)
WorkerGetPriceForDeviation(w) ==
    /\ workers[w].pc = "get_price_deviation"
    /\ \/ \E f \in GatewayFailures :
            workers' = [workers EXCEPT ![w] = Raised(@, f)]
       \/ workers' = [workers EXCEPT ![w] = OnPriceForDeviation(@, marketPrice)]
    /\ WorkerFrame

\* line 237: client.create_order(**order_params)
WorkerCreateOrder(w) ==
    /\ workers[w].pc = "create_order"
    /\ \/ \E f \in GatewayFailures :
            workers' = [workers EXCEPT ![w] = Raised(@, f)]
       \/ workers' = [workers EXCEPT
                          ![w].order_response =
                              Some([orderId |-> w] @@ workers[w].order_params[1]),
                          ![w].pc = "get_order"]
    /\ WorkerFrame

\* lines 243-248: get_order_details and the return
WorkerGetOrderDetails(w) ==
    /\ workers[w].pc = "get_order"
    /\ \/ \E f \in GatewayFailures :
            workers' = [workers EXCEPT ![w] = Raised(@, f)]
       \/ workers' = [workers EXCEPT
                          ![w].pc = "done",
                          ![w].result =
                              [status |-> "returned",
                               order_response |-> workers[w].order_response[1],
                               order_details |-> workers[w].order_response[1]]]
    /\ WorkerFrame

\* the exchange: other parties trade, the balances it reports change
ExchangeMoves ==
    /\ account' \in ConcurrentAccounts \ {account}
    /\ UNCHANGED <<elsewhere, marketPrice, pc, intent, args, held, current_price,
                   order_params, order_response, calls, submitted, balanceGuard,
                   deviationGuard, result, operation, pair, gatewayError>>

ConcurrentNext ==
    \/ \E w \in Workers :
          \/ WorkerPlaceOrder(w)
          \/ WorkerGetAccount(w)
          \/ WorkerGetPriceForBalance(w)
          \/ WorkerGetPriceForDeviation(w)
          \/ WorkerCreateOrder(w)
          \/ WorkerGetOrderDetails(w)
    \/ ExchangeMoves

SpecConcurrent == ConcurrentInit /\ [][ConcurrentNext]_vars

(***************************************************************************)
(* format_order_summary (lines 344-360) on its own: the argument is any    *)
(* order outcome, the function is called up to MaxSummaries times on it.   *)
(***************************************************************************)
\* the order_details a caller can hand over: the price key may be absent
OrderDetails ==
    {IF price = None THEN d ELSE d @@ [price |-> price[1]] :
        d \in [orderId : {1}, status : {"NEW", "FILLED"}, symbol : {BTCUSDT},
               side : {"BUY", "SELL"}, type : valid_order_types,
               origQty : {"1"}, executedQty : {"0", "1"}, time : {0}],
        price \in {None, Some("0.00000000"), Some("80")}}

\* lines 346-360: the fields the f-string renders, by label
format_order_summary(order_info) ==
    LET order_details == order_info.order_details
    IN [order_id |-> order_details.orderId,
        status |-> order_details.status,
        symbol |-> order_details.symbol,
        side |-> order_details.side,
        type |-> order_details.type,
        quantity |-> order_details.origQty,
        price |-> IF "price" \in DOMAIN order_details
                  THEN order_details.price ELSE "N/A",
        filled |-> order_details.executedQty,
        time |-> order_details.time]

SummaryInit ==
    /\ account \in {<<[asset |-> USDT, free |-> 100, locked |-> 0]>>}
    /\ marketPrice \in MarketPrices
    /\ pc = "idle"
    /\ \E d \in OrderDetails : intent = Some([order_details |-> d])
    /\ args = None
    /\ held = None
    /\ current_price = None
    /\ order_params = None
    /\ order_response = None
    /\ calls = <<>>
    /\ submitted = <<>>
    /\ balanceGuard = "none"
    /\ deviationGuard = "none"
    /\ result = [status |-> "none"]
    /\ operation = "none"
    /\ pair = None
    /\ gatewayError = None
    /\ ElsewhereIdle

\* mutant: the rendering depends on how often the function was called
FormatOrderSummary_Counting ==
    /\ Len(summaries) < MaxSummaries
    /\ operation' = "format_order_summary"
    /\ summaries' = Append(summaries,
                           [format_order_summary(intent[1])
                                EXCEPT !.order_id = @ + Len(summaries)])
    /\ UNCHANGED <<workers, gui, cli, account, marketPrice, pc, intent, args, held,
                   current_price, order_params, order_response, calls, submitted,
                   balanceGuard, deviationGuard, result, pair, gatewayError>>

\* one call of format_order_summary on the outcome: it reads its argument
\* and returns the string, nothing else
FormatOrderSummary ==
    /\ Len(summaries) < MaxSummaries
    /\ operation' = "format_order_summary"
    /\ summaries' = Append(summaries, format_order_summary(intent[1]))
    /\ UNCHANGED <<workers, gui, cli, account, marketPrice, pc, intent, args, held,
                   current_price, order_params, order_response, calls, submitted,
                   balanceGuard, deviationGuard, result, pair, gatewayError>>

SpecSummary == SummaryInit /\ [][FormatOrderSummary]_vars

(***************************************************************************)
(* The GUI (src/gui.py).  A click runs the button's command on the UI      *)
(* thread, which starts a thread on the nested function; the thread reads  *)
(* the form, calls the bot and touches widgets.  log_message hands its     *)
(* text to root.after_idle; the main loop runs _append_log later.          *)
(***************************************************************************)
\* the methods class BasicBot defines (src/bot.py)
BasicBotSurface ==
    {"get_account_balance", "get_symbol_info", "place_order", "get_order_details",
     "cancel_order", "get_open_orders", "get_position_info", "get_current_price",
     "format_order_summary"}

\* getattr on self.bot
BotHas(method) == method \in BasicBotSurface

\* what the user typed: quantity and price are <<>> when float() rejects them
Forms ==
    [symbol : {<<>>, BTCUSDT}, side : {"BUY", "SELL"},
     order_type : {"MARKET", "LIMIT"}, quantity : {None, Some(0), Some(1)},
     price : {None, Some(0), Some(80)}, leverage : {Some(1)}]

\* what one run of a thread does: the widgets it touches itself, the number
\* of log_message calls, the bot methods it looks up, the threads it starts
Effect(widgets, logs, botcalls, spawn) ==
    [widgets |-> widgets, logs |-> logs, botcalls |-> botcalls, spawn |-> spawn]

\* the except clause of lines 220-222, 260-262, 279-281, 296-298
LogAndDialog(botcalls) == Effect({"messagebox"}, 1, botcalls, <<>>)

\* lines 207-222, the gateway having answered or failed
get_price(form, failed) ==
    IF str_upper(form.symbol) = <<>> THEN Effect({}, 0, {}, <<>>)
    ELSE IF ~BotHas("get_current_price") \/ failed
    THEN LogAndDialog({"get_current_price"})
    ELSE Effect({"price_label"}
                    \cup (IF form.order_type = "LIMIT" THEN {"price_var"} ELSE {}),
                0, {"get_current_price"}, <<>>)

\* lines 228-262
place_order(form) ==
    IF form.quantity = None \/ form.leverage = None
    THEN LogAndDialog({})
    ELSE IF str_upper(form.symbol) = <<>> \/ form.quantity[1] <= 0
    THEN Effect({"messagebox"}, 0, {}, <<>>)
    ELSE IF ~BotHas("set_leverage")
    THEN LogAndDialog({"set_leverage"})
    ELSE IF form.order_type = "MARKET"
    THEN IF ~BotHas("place_market_order")
         THEN LogAndDialog({"set_leverage", "place_market_order"})
         ELSE Effect({"orders_tree", "messagebox"}, 1,
                     {"set_leverage", "place_market_order"}, <<"_refresh">>)
    ELSE IF form.price = None
    THEN LogAndDialog({"set_leverage"})
    ELSE IF form.price[1] <= 0
    THEN Effect({"messagebox"}, 0, {"set_leverage"}, <<>>)
    ELSE IF ~BotHas("place_limit_order")
    THEN LogAndDialog({"set_leverage", "place_limit_order"})
    ELSE Effect({"orders_tree", "messagebox"}, 1,
                {"set_leverage", "place_limit_order"}, <<"_refresh">>)

\* lines 267-281
cancel_orders(form) ==
    IF str_upper(form.symbol) = <<>> THEN Effect({"messagebox"}, 0, {}, <<>>)
    ELSE IF ~BotHas("cancel_all_orders")
    THEN LogAndDialog({"cancel_all_orders"})
    ELSE Effect({"messagebox"}, 1, {"cancel_all_orders"}, <<"_refresh">>)

\* lines 288-298
close_positions(form) ==
    IF ~BotHas("close_all_positions")
    THEN LogAndDialog({"close_all_positions"})
    ELSE Effect({"messagebox"}, 1, {"close_all_positions"}, <<"_refresh">>)

\* lines 304-322
refresh(form) ==
    IF ~BotHas("get_account_info")
    THEN Effect({}, 1, {"get_account_info"}, <<>>)
    ELSE Effect({"balance_label", "margin_label", "positions_tree"}, 0,
                {"get_account_info"}, <<>>)

GuiFrame ==
    UNCHANGED <<summaries, workers, cli, account, marketPrice, pc, intent, args,
                held, current_price, order_params, order_response, calls, submitted,
                balanceGuard, deviationGuard, result, operation, pair, gatewayError>>

GuiInit ==
    /\ account \in {<<[asset |-> USDT, free |-> 100, locked |-> 0]>>}
    /\ marketPrice \in MarketPrices
    /\ pc = "idle"
    /\ intent = None
    /\ args = None
    /\ held = None
    /\ current_price = None
    /\ order_params = None
    /\ order_response = None
    /\ calls = <<>>
    /\ submitted = <<>>
    /\ balanceGuard = "none"
    /\ deviationGuard = "none"
    /\ result = [status |-> "none"]
    /\ operation = "none"
    /\ pair = None
    /\ gatewayError = None
    /\ summaries = <<>>
    /\ workers = <<>>
    /\ cli = <<>>
    /\ \E form \in Forms :
          gui = [form |-> form, clicks |-> 0, threads |-> <<>>, idle |-> 0,
                 mutations |-> {}, botcalls |-> {}, ran |-> {}]

\* the button's command, lines 224, 263, 284, 300, 324: threading.Thread(
\* target=..., daemon=True).start()
Click(target) ==
    /\ gui.clicks < MaxClicks
    /\ gui' = [gui EXCEPT !.clicks = @ + 1, !.threads = Append(@, target)]
    /\ GuiFrame

ClickGetPrice == Click("_get_price") /\ gui.threads' # gui.threads

ClickPlaceOrder == Click("_place_order") /\ gui.threads' # gui.threads

ClickCancelAll == Click("_cancel_orders") /\ gui.threads' # gui.threads

ClickCloseAll == Click("_close_positions") /\ gui.threads' # gui.threads

ClickRefresh == Click("_refresh") /\ gui.threads' # gui.threads

\* thread i ran to its end with effect e: the widgets it touched were
\* touched on that thread, its log_message calls wait in after_idle
Ran(i, e) ==
    /\ gui' = [gui EXCEPT
                  !.threads = [j \in 1..(Len(@) - 1) |->
                                   IF j < i THEN @[j] ELSE @[j + 1]] \o e.spawn,
                  !.idle = @ + e.logs,
                  !.mutations = @ \cup {[widget |-> x, thread |-> "worker"] :
                                           x \in e.widgets},
                  !.botcalls = @ \cup e.botcalls,
                  !.ran = @ \cup {gui.threads[i]},
                  !.form.price = IF "price_var" \in e.widgets
                                 THEN Some(marketPrice) ELSE @]
    /\ GuiFrame

GetPriceThread ==
    \E i \in DOMAIN gui.threads, failed \in BOOLEAN :
        /\ gui.threads[i] = "_get_price"
        /\ Ran(i, get_price(gui.form, failed))

PlaceOrderThread ==
    \E i \in DOMAIN gui.threads :
        /\ gui.threads[i] = "_place_order"
        /\ Ran(i, place_order(gui.form))

CancelOrdersThread ==
    \E i \in DOMAIN gui.threads :
        /\ gui.threads[i] = "_cancel_orders"
        /\ Ran(i, cancel_orders(gui.form))

ClosePositionsThread ==
    \E i \in DOMAIN gui.threads :
        /\ gui.threads[i] = "_close_positions"
        /\ Ran(i, close_positions(gui.form))

RefreshThread ==
    \E i \in DOMAIN gui.threads :
        /\ gui.threads[i] = "_refresh"
        /\ Ran(i, refresh(gui.form))

\* the main loop runs one after_idle callback: _append_log, lines 374-382
AppendLog ==
    /\ gui.idle > 0
    /\ gui' = [gui EXCEPT !.idle = @ - 1,
                          !.mutations = @ \cup {[widget |-> "log_text",
                                                  thread |-> "ui"]}]
    /\ GuiFrame

GuiNext ==
    \/ ClickGetPrice
    \/ ClickPlaceOrder
    \/ ClickCancelAll
    \/ ClickCloseAll
    \/ ClickRefresh
    \/ GetPriceThread
    \/ PlaceOrderThread
    \/ CancelOrdersThread
    \/ ClosePositionsThread
    \/ RefreshThread
    \/ AppendLog

SpecGui == GuiInit /\ [][GuiNext]_vars

(***************************************************************************)
(* place_order with any quantity, called directly or by the single-command *)
(* CLI (src/main.py, main and run_single_command).  After the entry the    *)
(* invocation runs the steps of Next.                                      *)
(***************************************************************************)
AnyQuantities == {-1, 0, 1}

\* lines 136-149 for the arguments i, time_in_force left at its default
Call(i) ==
    LET a == [symbol |-> str_upper(i.symbol), side |-> word_upper(i.side),
              order_type |-> word_upper(i.order_type), quantity |-> i.quantity,
              price |-> i.price, stop_price |-> i.stop_price,
              time_in_force |-> "GTC"]
    IN /\ intent' = Some(i)
       /\ args' = a
       /\ IF ~ValidSide(a.side)
          THEN Raise(ValueError("Side must be 'BUY' or 'SELL'"))
          ELSE IF ~ValidOrderType(a.order_type)
          THEN Raise(ValueError("Order type must be one of: valid_order_types"))
          ELSE pc' = "get_account" /\ UNCHANGED result

\* sys.exit(1) of main.py lines 381, 386, 391
Exit(i) ==
    /\ intent' = Some(i)
    /\ pc' = "done"
    /\ result' = [status |-> "exit", code |-> 1]
    /\ UNCHANGED args

\* what argparse hands over: a value, or None for an option not given
CommandLines ==
    [symbol : {BTCUSDT}, side : {"BUY", "SELL"},
     order_type : {"MARKET", "LIMIT", "STOP_MARKET"},
     quantity : {None} \cup {Some(q) : q \in AnyQuantities},
     price : {None, Some(0), Some(80)}, stop_price : {None, Some(90)}]

\* Python's truth value of an optional float
Truthy(x) == x # None /\ x[1] # 0

QuantityInit ==
    /\ account \in ConcurrentAccounts
    /\ marketPrice \in MarketPrices
    /\ pc = "idle"
    /\ intent = None
    /\ args = None
    /\ held = None
    /\ current_price = None
    /\ order_params = None
    /\ order_response = None
    /\ calls = <<>>
    /\ submitted = <<>>
    /\ balanceGuard = "none"
    /\ deviationGuard = "none"
    /\ result = [status |-> "none"]
    /\ operation = "none"
    /\ pair = None
    /\ gatewayError = None
    /\ ElsewhereIdle

\* bot.place_order(...) called with any quantity
PlaceOrderDirect ==
    /\ pc = "idle"
    /\ \E symbol \in {BTCUSDT}, side \in {"BUY", "SELL"},
          order_type \in {"MARKET", "LIMIT", "STOP_MARKET"},
          quantity \in AnyQuantities, price \in {None, Some(80)},
          stop_price \in {None, Some(90)} :
          Call([symbol |-> symbol, side |-> side, order_type |-> order_type,
                quantity |-> quantity, price |-> price, stop_price |-> stop_price])
    /\ operation' = "place_order"
    /\ UNCHANGED <<elsewhere, account, marketPrice, held, current_price, order_params,
                   order_response, calls, submitted, balanceGuard, deviationGuard,
                   pair, gatewayError>>

\* main.py lines 376-394 and 334-346: the checks of main, then
\* run_single_command's call of place_order
SingleCommand ==
    /\ pc = "idle"
    /\ \E c \in CommandLines :
          IF ~Truthy(c.quantity)
          THEN Exit(c)
          ELSE IF c.order_type \in {"LIMIT", "STOP"} /\ ~Truthy(c.price)
          THEN Exit(c)
          ELSE IF c.order_type \in {"STOP_MARKET", "STOP"} /\ ~Truthy(c.stop_price)
          THEN Exit(c)
          ELSE Call([c EXCEPT !.quantity = c.quantity[1]])
    /\ operation' = "run_single_command"
    /\ UNCHANGED <<elsewhere, account, marketPrice, held, current_price, order_params,
                   order_response, calls, submitted, balanceGuard, deviationGuard,
                   pair, gatewayError>>

QuantityNext ==
    \/ PlaceOrderDirect
    \/ SingleCommand
    \/ GetAccount
    \/ GetPriceForBalance
    \/ GetPriceForDeviation
    \/ CreateOrder
    \/ GetOrderDetails

SpecQuantity == QuantityInit /\ [][QuantityNext]_vars

(***************************************************************************)
(* A BUY that is rejected for insufficient balance and called again with   *)
(* the quantity the message suggests ({max_possible:.6f}, line 178),       *)
(* against the same balances and the same market price.                    *)
(***************************************************************************)
MaxQuote == 10

RetryInit ==
    /\ account \in {<<[asset |-> USDT, free |-> q, locked |-> 0]>> : q \in 1..MaxQuote}
    /\ marketPrice \in {7, 100}
    /\ pc = "idle"
    /\ intent = None
    /\ args = None
    /\ held = None
    /\ current_price = None
    /\ order_params = None
    /\ order_response = None
    /\ calls = <<>>
    /\ submitted = <<>>
    /\ balanceGuard = "none"
    /\ deviationGuard = "none"
    /\ result = [status |-> "none"]
    /\ operation = "none"
    /\ pair = None
    /\ gatewayError = None
    /\ ElsewhereIdle

\* the first call: a BUY
PlaceBuyOrder ==
    /\ pc = "idle"
    /\ \E order_type \in {"MARKET", "LIMIT"}, quantity \in Quantities,
          price \in {Some(6), Some(121)} :
          Call([symbol |-> BTCUSDT, side |-> "BUY", order_type |-> order_type,
                quantity |-> quantity, price |-> price, stop_price |-> None])
    /\ operation' = "place_order"
    /\ UNCHANGED <<elsewhere, account, marketPrice, held, current_price, order_params,
                   order_response, calls, submitted, balanceGuard, deviationGuard,
                   pair, gatewayError>>

\* the second call, up to the verdict of the Balance Guard (lines 158-179):
\* quantity is the suggestion, counted in millionths, so line 175 is
\* evaluated with both sides times Micro
Resubmit ==
    /\ pc = "done"
    /\ balanceGuard = "fail"
    /\ args.side = "BUY"
    /\ LET quantity == result.cause.max_possible_micro
           bal == FreeBalance(account, quote_asset(args.symbol))
           need == RequiredAmount100(args.order_type, quantity,
                                     IF args.price = None THEN 0 ELSE args.price[1],
                                     marketPrice)
       IN /\ args' = [args EXCEPT !.quantity = quantity]
          /\ held' = Some(bal)
          /\ balanceGuard' = IF InsufficientQuote(bal * Micro, need)
                             THEN "fail" ELSE "pass"
    /\ pc' = "resubmitted"
    /\ calls' = calls \o (IF args.order_type = "MARKET"
                           THEN <<"get_account", "get_symbol_ticker">>
                           ELSE <<"get_account">>)
    /\ UNCHANGED <<elsewhere, account, marketPrice, intent, current_price,
                   order_params, order_response, submitted, deviationGuard, result,
                   operation, pair, gatewayError>>

RetryNext ==
    \/ PlaceBuyOrder
    \/ GetAccount
    \/ GetPriceForBalance
    \/ GetPriceForDeviation
    \/ CreateOrder
    \/ GetOrderDetails
    \/ Resubmit

SpecRetry == RetryInit /\ [][RetryNext]_vars

(***************************************************************************)
(* The interactive shell's place_order_interactive (src/main.py lines      *)
(* 56-162).  get_user_input (lines 39-54) asks again until the text        *)
(* converts, so each prompt ends with a converted value, or with None      *)
(* after Ctrl-C.  A float is a number or not-a-number: float('nan')        *)
(* converts, and every comparison with it is false.                        *)
(***************************************************************************)
Number(v) == [kind |-> "number", v |-> v]
NaN == [kind |-> "nan"]

\* line 107, 114, 122: not value or value <= 0, value None or a float
InvalidAmount(value) ==
    \/ value = None
    \/ value[1].kind = "number" /\ value[1].v = 0
    \/ value[1].kind = "number" /\ value[1].v <= 0

FloatAnswers == {None, Some(NaN), Some(Number(-1)), Some(Number(0)), Some(Number(1))}
IntAnswers == {None} \cup {Some(n) : n \in 0..5}
TextAnswers == {None, Some("y"), Some("Y"), Some("n")}

\* str.lower on the answers
lower(text) == IF text = "Y" THEN "y" ELSE text

order_type_map == (1 :> "MARKET") @@ (2 :> "LIMIT") @@ (3 :> "STOP_MARKET")
                      @@ (4 :> "STOP")

\* return
Returns(c) == [c EXCEPT !.pc = "done", !.outcome = "returned"]

\* None.upper() / None.lower(): AttributeError leaves the function
Raises(c) == [c EXCEPT !.pc = "done", !.outcome = "raised"]

\* where the function goes once the quantity is accepted (lines 111-124)
AfterQuantity(order_type) ==
    IF order_type \in {"LIMIT", "STOP"} THEN "price"
    ELSE IF order_type \in {"STOP_MARKET", "STOP"} THEN "stop_price"
    ELSE "confirm"

CliFrame ==
    UNCHANGED <<summaries, workers, gui, account, marketPrice, pc, intent, args,
                held, current_price, order_params, order_response, calls, submitted,
                balanceGuard, deviationGuard, result, operation, pair, gatewayError>>

CliInit ==
    /\ account \in {<<[asset |-> USDT, free |-> 100, locked |-> 0]>>}
    /\ marketPrice \in MarketPrices
    /\ pc = "idle"
    /\ intent = None
    /\ args = None
    /\ held = None
    /\ current_price = None
    /\ order_params = None
    /\ order_response = None
    /\ calls = <<>>
    /\ submitted = <<>>
    /\ balanceGuard = "none"
    /\ deviationGuard = "none"
    /\ result = [status |-> "none"]
    /\ operation = "none"
    /\ pair = None
    /\ gatewayError = None
    /\ summaries = <<>>
    /\ workers = <<>>
    /\ gui = <<>>
    /\ cli = [pc |-> "symbol", symbol |-> None, side_choice |-> None,
              type_choice |-> None, quantity |-> None, price |-> None,
              stop_price |-> None, confirm |-> None, orders |-> <<>>,
              outcome |-> "running"]

\* lines 63-72: the symbol, then the price shown for reference (a failure
\* of get_current_price is printed as a warning)
AskSymbol ==
    /\ cli.pc = "symbol"
    /\ \E answer \in {None, Some(BTCUSDT), Some(ethbtc)} :
          cli' = IF answer = None THEN Raises(cli)
                 ELSE IF str_upper(answer[1]) = <<>> THEN Returns(cli)
                 ELSE [cli EXCEPT !.symbol = Some(str_upper(answer[1])),
                                  !.pc = "side"]
    /\ CliFrame

\* lines 75-82
AskSide ==
    /\ cli.pc = "side"
    /\ \E answer \in IntAnswers :
          cli' = IF answer = None \/ answer[1] \notin {1, 2}
                 THEN Returns([cli EXCEPT !.side_choice = answer])
                 ELSE [cli EXCEPT !.side_choice = answer, !.pc = "type"]
    /\ CliFrame

\* lines 85-103
AskType ==
    /\ cli.pc = "type"
    /\ \E answer \in IntAnswers :
          cli' = IF answer = None \/ answer[1] \notin DOMAIN order_type_map
                 THEN Returns([cli EXCEPT !.type_choice = answer])
                 ELSE [cli EXCEPT !.type_choice = answer, !.pc = "quantity"]
    /\ CliFrame

\* lines 106-109
AskQuantity ==
    /\ cli.pc = "quantity"
    /\ \E answer \in FloatAnswers :
          cli' = IF InvalidAmount(answer)
                 THEN Returns([cli EXCEPT !.quantity = answer])
                 ELSE [cli EXCEPT !.quantity = answer,
                           !.pc = AfterQuantity(order_type_map[cli.type_choice[1]])]
    /\ CliFrame

\* lines 112-117
AskPrice ==
    /\ cli.pc = "price"
    /\ \E answer \in FloatAnswers :
          cli' = IF InvalidAmount(answer)
                 THEN Returns([cli EXCEPT !.price = answer])
                 ELSE [cli EXCEPT !.price = answer,
                           !.pc = IF order_type_map[cli.type_choice[1]]
                                        \in {"STOP_MARKET", "STOP"}
                                  THEN "stop_price" ELSE "confirm"]
    /\ CliFrame

\* lines 120-125
AskStopPrice ==
    /\ cli.pc = "stop_price"
    /\ \E answer \in FloatAnswers :
          cli' = IF InvalidAmount(answer)
                 THEN Returns([cli EXCEPT !.stop_price = answer])
                 ELSE [cli EXCEPT !.stop_price = answer, !.pc = "confirm"]
    /\ CliFrame

\* lines 141-144
Confirm ==
    /\ cli.pc = "confirm"
    /\ \E answer \in TextAnswers :
          cli' = IF answer = None THEN Raises(cli)
                 ELSE IF lower(answer[1]) # "y"
                 THEN Returns([cli EXCEPT !.confirm = answer])
                 ELSE [cli EXCEPT !.confirm = answer, !.pc = "place"]
    /\ CliFrame

\* lines 147-162: bot.place_order(...), which returns or raises; either
\* way the function prints and returns
CallPlaceOrder ==
    /\ cli.pc = "place"
    /\ cli' = Returns([cli EXCEPT !.orders =
                  Append(@, [symbol |-> cli.symbol[1],
                             side |-> IF cli.side_choice[1] = 1 THEN "BUY" ELSE "SELL",
                             order_type |-> order_type_map[cli.type_choice[1]],
                             quantity |-> cli.quantity[1],
                             price |-> cli.price,
                             stop_price |-> cli.stop_price])])
    /\ CliFrame

CliNext ==
    \/ AskSymbol
    \/ AskSide
    \/ AskType
    \/ AskQuantity
    \/ AskPrice
    \/ AskStopPrice
    \/ Confirm
    \/ CallPlaceOrder

SpecCli == CliInit /\ [][CliNext]_vars

(***************************************************************************)
(* Vocabulary of the properties                                            *)
(***************************************************************************)
Invoked == pc # "idle"

Finished == pc = "done"

RejectedWith(msg) == result.status = "raised" /\ result.cause.message = msg

RejectedForBalance == RejectedWith("Insufficient balance")

RejectedForDeviation == RejectedWith("too far from current market price")

GatewayFailed == IsGatewayFailure(result)

CalledGateway(op) == \E i \in DOMAIN calls : calls[i] = op

\* the free amount the snapshot reports for an asset: that of its first
\* entry, 0 when the snapshot has no entry for it
SnapshotFree(asset) ==
    LET idx == {i \in DOMAIN account : account[i].asset = asset}
    IN IF idx = {} THEN 0
       ELSE account[CHOOSE i \in idx : \A j \in idx : i <= j].free

SnapshotLocked(asset) ==
    LET idx == {i \in DOMAIN account : account[i].asset = asset}
    IN IF idx = {} THEN 0
       ELSE account[CHOOSE i \in idx : \A j \in idx : i <= j].locked

SixOrderTypes ==
    {"MARKET", "LIMIT", "STOP", "STOP_MARKET", "TAKE_PROFIT", "TAKE_PROFIT_MARKET"}

StopFamily == {"STOP", "STOP_MARKET", "TAKE_PROFIT", "TAKE_PROFIT_MARKET"}

(***************************************************************************)
(* C1: create_order is invoked only if, earlier in the same invocation,    *)
(* side was BUY or SELL and type one of the six supported values, the      *)
(* Balance Guard passed, the Price Deviation Guard passed when type is     *)
(* LIMIT and a price was given, and the field the builder requires for     *)
(* the type (price for LIMIT, stopPrice for the stop family) is present.   *)
(* A rejection is terminal: once the invocation has raised, no further     *)
(* step is taken, and an invocation rejected by a validation stage never   *)
(* called create_order.                                                    *)
(***************************************************************************)
C1_SubmitOnlyAfterGuards ==
    /\ [](CalledGateway("create_order") =>
            /\ args.side \in {"BUY", "SELL"}
            /\ args.order_type \in SixOrderTypes
            /\ balanceGuard = "pass"
            /\ (args.order_type = "LIMIT" => args.price # None)
            /\ (args.order_type = "LIMIT" => deviationGuard = "pass")
            /\ (args.order_type \in StopFamily => args.stop_price # None))
    /\ []((Finished /\ result.status = "raised" /\ ~GatewayFailed) =>
            ~CalledGateway("create_order"))
    /\ [][result.status = "raised" => UNCHANGED vars]_vars

C1_Witness ==
    /\ CalledGateway("create_order")
    /\ args.order_type = "LIMIT"
    /\ deviationGuard = "pass"
    /\ balanceGuard = "pass"

(***************************************************************************)
(* C2: for a BUY of type MARKET whose balance snapshot and market price    *)
(* were fetched, the invocation is rejected for insufficient balance if    *)
(* and only if the free quote balance is strictly less than                *)
(* quantity x marketPrice x 1.01; the locked amount is not counted and an  *)
(* absent quote asset counts as 0.                                         *)
(***************************************************************************)
C2_MarketBuyBalance ==
    (Invoked /\ args.side = "BUY" /\ args.order_type = "MARKET"
        /\ current_price # None) =>
        (RejectedForBalance <=>
            SnapshotFree(USDT) * 100 < args.quantity * marketPrice * BufferPct)

\* rejected although free + locked, and free without the buffer, would do
C2_Witness ==
    /\ Invoked /\ args.side = "BUY" /\ args.order_type = "MARKET"
    /\ RejectedForBalance
    /\ SnapshotFree(USDT) >= args.quantity * marketPrice
    /\ SnapshotLocked(USDT) > 0

(***************************************************************************)
(* C3: for a BUY of a non-MARKET type with a price, once the snapshot is   *)
(* fetched the invocation is rejected for insufficient balance if and      *)
(* only if the free quote balance is strictly less than quantity x price;  *)
(* neither the market price nor a buffer enters the comparison.            *)
(***************************************************************************)
C3_LimitBuyBalance ==
    (Invoked /\ args.side = "BUY" /\ args.order_type \in SixOrderTypes \ {"MARKET"}
        /\ args.price # None /\ held # None) =>
        (RejectedForBalance <=> SnapshotFree(USDT) < args.quantity * args.price[1])

\* free balance exactly quantity x price: the guard passes
C3_Witness ==
    /\ Invoked /\ args.side = "BUY" /\ args.order_type = "LIMIT"
    /\ args.price # None /\ held # None
    /\ SnapshotFree(USDT) = args.quantity * args.price[1]
    /\ balanceGuard = "pass"

(***************************************************************************)
(* C4: for a SELL of any order type, once the snapshot is fetched the      *)
(* invocation is rejected for insufficient balance if and only if the      *)
(* free base balance is strictly less than quantity; the locked amount is  *)
(* not counted and an absent base asset counts as 0.                       *)
(***************************************************************************)
C4_SellBalance ==
    (Invoked /\ args.side = "SELL" /\ args.order_type \in SixOrderTypes
        /\ held # None) =>
        (RejectedForBalance <=>
            SnapshotFree(base_asset(args.symbol)) < args.quantity)

\* rejected although free + locked covers the quantity
C4_Witness ==
    /\ Invoked /\ args.side = "SELL" /\ held # None
    /\ RejectedForBalance
    /\ SnapshotFree(base_asset(args.symbol)) + SnapshotLocked(base_asset(args.symbol))
          >= args.quantity

(***************************************************************************)
(* C5: an invocation whose Balance Guard passed and whose market price     *)
(* was fetched is rejected for price deviation if and only if type is      *)
(* LIMIT, a price is present and |price - marketPrice| / marketPrice x 100 *)
(* is strictly greater than 20 (exactly 20 passes); no invocation of any   *)
(* other type, and none without a price, is rejected for price deviation.  *)
(***************************************************************************)
C5_PriceDeviation ==
    /\ (Invoked /\ RejectedForDeviation) =>
            /\ args.order_type = "LIMIT"
            /\ args.price # None
            /\ Abs(args.price[1] - marketPrice) * 100 > 20 * marketPrice
    /\ (Invoked /\ args.order_type = "LIMIT" /\ args.price # None
            /\ balanceGuard = "pass" /\ current_price # None) =>
            (RejectedForDeviation <=>
                Abs(args.price[1] - marketPrice) * 100 > 20 * marketPrice)

\* a deviation of exactly 20 percent reaches the gateway
C5_Witness ==
    /\ Invoked /\ args.order_type = "LIMIT" /\ args.price # None
    /\ Abs(args.price[1] - marketPrice) * 100 = 20 * marketPrice
    /\ CalledGateway("create_order")

(***************************************************************************)
(* C6: every invocation with type LIMIT and no price, for BUY and SELL     *)
(* and every balance snapshot and market price, fails with the error       *)
(* "Price is required for LIMIT orders", and nothing is submitted.         *)
(***************************************************************************)
C6_LimitWithoutPrice ==
    (Finished /\ args.side \in {"BUY", "SELL"} /\ args.order_type = "LIMIT"
        /\ args.price = None /\ ~GatewayFailed) =>
        /\ RejectedWith("Price is required for LIMIT orders")
        /\ ~CalledGateway("create_order")

(***************************************************************************)
(* C7: an invocation of type STOP_MARKET or TAKE_PROFIT_MARKET with a      *)
(* stopPrice, no price and sufficient funds passes validation for BUY and  *)
(* for SELL and is submitted to the gateway carrying that stopPrice.       *)
(***************************************************************************)
SufficientFunds ==
    IF args.side = "BUY"
    THEN SnapshotFree(USDT) * 100 >= args.quantity * marketPrice * BufferPct
    ELSE SnapshotFree(base_asset(args.symbol)) >= args.quantity

C7_StopMarketSubmitted ==
    (Finished /\ args.side \in {"BUY", "SELL"}
        /\ args.order_type \in {"STOP_MARKET", "TAKE_PROFIT_MARKET"}
        /\ args.stop_price # None /\ args.price = None
        /\ SufficientFunds /\ ~GatewayFailed) =>
        /\ result.status = "returned"
        /\ Len(submitted) = 1
        /\ "stopPrice" \in DOMAIN submitted[1]
        /\ submitted[1].stopPrice = args.stop_price[1]

(***************************************************************************)
(* C8: every request passed to create_order carries a price when its type  *)
(* is LIMIT or STOP, and a stopPrice when its type is STOP, STOP_MARKET,    *)
(* TAKE_PROFIT or TAKE_PROFIT_MARKET.                                      *)
(***************************************************************************)
C8_RequestFieldsComplete ==
    \A i \in DOMAIN submitted :
        /\ (submitted[i].type \in {"LIMIT", "STOP"} =>
                "price" \in DOMAIN submitted[i])
        /\ (submitted[i].type \in StopFamily =>
                "stopPrice" \in DOMAIN submitted[i])

(***************************************************************************)
(* C9: a submitted MARKET request carries neither price, stopPrice nor     *)
(* timeInForce even when the caller supplied them; a submitted LIMIT       *)
(* request carries no stopPrice; timeInForce appears only on LIMIT         *)
(* requests; every submitted request carries symbol, side, type and        *)
(* quantity.                                                               *)
(***************************************************************************)
C9_NoExtraneousField ==
    \A i \in DOMAIN submitted :
        LET r == submitted[i]
        IN /\ {"symbol", "side", "type", "quantity"} \subseteq DOMAIN r
           /\ (r.type = "MARKET" =>
                  DOMAIN r \cap {"price", "stopPrice", "timeInForce"} = {})
           /\ (r.type = "LIMIT" => "stopPrice" \notin DOMAIN r)
           /\ ("timeInForce" \in DOMAIN r => r.type = "LIMIT")
           /\ DOMAIN r \subseteq {"symbol", "side", "type", "quantity", "price",
                                  "stopPrice", "timeInForce"}

\* a MARKET request was submitted for a caller who gave a price and a stopPrice
C9_Witness ==
    /\ Len(submitted) = 1
    /\ submitted[1].type = "MARKET"
    /\ args.price # None
    /\ args.stop_price # None

(***************************************************************************)
(* C10: a MARKET invocation with a valid side and sufficient balance is    *)
(* built and submitted whatever price and stopPrice were supplied, and the *)
(* request is the one submitted when both are absent: symbol, side, type   *)
(* and quantity only.                                                      *)
(***************************************************************************)
C10_MarketIgnoresPrices ==
    (Invoked /\ args.side \in {"BUY", "SELL"} /\ args.order_type = "MARKET"
        /\ SufficientFunds /\ Finished /\ ~GatewayFailed) =>
        /\ result.status = "returned"
        /\ submitted = <<[symbol |-> args.symbol, side |-> args.side,
                          type |-> "MARKET", quantity |-> args.quantity]>>

\* a MARKET order was placed although the price given is 21 percent off
C10_Witness ==
    /\ Invoked /\ args.order_type = "MARKET" /\ Finished
    /\ result.status = "returned"
    /\ args.price # None /\ args.stop_price # None
    /\ Abs(args.price[1] - marketPrice) * 100 > 20 * marketPrice

(***************************************************************************)
(* C11: place_order rejects every intent whose upper-cased side is not     *)
(* BUY or SELL with the error naming side and its allowed values, and      *)
(* every intent with a valid side whose upper-cased type is not one of     *)
(* the six supported values with the error naming the order type and its   *)
(* allowed set; side is checked before type, and a lower-case side or      *)
(* type that upper-cases to a valid value is not rejected by these checks. *)
(***************************************************************************)
SideError == "Side must be 'BUY' or 'SELL'"

TypeError_OrderType == "Order type must be one of: valid_order_types"

C11_SideAndTypeValidated ==
    Invoked =>
        /\ (args.side \notin {"BUY", "SELL"} => RejectedWith(SideError))
        /\ (args.side \in {"BUY", "SELL"} /\ args.order_type \notin SixOrderTypes
                => RejectedWith(TypeError_OrderType))
        /\ (intent[1].side \in {"BUY", "SELL", "buy", "sell"}
                => ~RejectedWith(SideError))
        /\ (intent[1].order_type \in SixOrderTypes \cup {"limit", "market"}
                => ~RejectedWith(TypeError_OrderType))

\* side and type are both invalid: the error is the one about side
C11_Witness ==
    /\ Invoked
    /\ intent[1].side = "HOLD" /\ intent[1].order_type = "OCO"
    /\ RejectedWith(SideError)

(***************************************************************************)
(* C12: every invalid-parameter rejection (bad side, bad type, missing     *)
(* price for LIMIT, missing stopPrice for a stop-family type) is raised    *)
(* before any gateway call was made in the invocation.                     *)
(***************************************************************************)
C12_InvalidParameterBeforeGateway ==
    (Invoked /\ (\/ RejectedWith(SideError)
                 \/ RejectedWith(TypeError_OrderType)
                 \/ RejectedWith("Price is required for LIMIT orders")
                 \/ RejectedWith("Stop price is required")))
        => calls = <<>>

(***************************************************************************)
(* C13: for every symbol ending in "USDT" the quote asset is "USDT" and    *)
(* the base asset is the symbol without its last 4 characters; for every   *)
(* symbol not ending in "USDT" the quote asset is "USDT" and the base      *)
(* asset is the symbol without its last 3 characters; the BUY branch and   *)
(* the SELL branch derive the same base asset.                             *)
(***************************************************************************)
WithoutLast(s, n) == SubSeq(s, 1, Len(s) - n)

EndsInUSDT(s) ==
    /\ Len(s) >= 4
    /\ s[Len(s) - 3] = "U" /\ s[Len(s) - 2] = "S"
    /\ s[Len(s) - 1] = "D" /\ s[Len(s)] = "T"

C13_SymbolResolution ==
    pair # None =>
        /\ (args.side = "BUY" => pair[1].quote = USDT)
        /\ (EndsInUSDT(args.symbol) => pair[1].base = WithoutLast(args.symbol, 4))
        /\ (~EndsInUSDT(args.symbol) => pair[1].base = WithoutLast(args.symbol, 3))

(***************************************************************************)
(* C14: for every symbol resolved into a base and a quote asset,           *)
(* concatenating the base asset and the quote asset gives back the symbol. *)
(***************************************************************************)
C14_PairReconstructsSymbol ==
    (pair # None /\ "quote" \in DOMAIN pair[1]) =>
        pair[1].base \o pair[1].quote = args.symbol

(***************************************************************************)
(* C15: an intent whose symbol is the empty string is rejected with an     *)
(* invalid-symbol error before the balance snapshot or the market price    *)
(* is fetched and before anything is submitted.                            *)
(***************************************************************************)
C15_EmptySymbolRejected ==
    (Invoked /\ args.symbol = <<>>
        /\ args.side \in {"BUY", "SELL"} /\ args.order_type \in SixOrderTypes) =>
        /\ calls = <<>>
        /\ (Finished => /\ result.status = "raised"
                        /\ result.cause.exc = "InvalidSymbolError")

(***************************************************************************)
(* C16: when the Balance Guard rejects a BUY, the error carries the quote  *)
(* asset, the free amount held, the amount required and a suggested        *)
(* maximum quantity equal to held / referencePrice (the market price for   *)
(* MARKET, the given price otherwise), rendered to six decimals; when it   *)
(* rejects a SELL, the error carries the base asset, the free amount held  *)
(* and the requested quantity, with the held amount as the suggestion.     *)
(***************************************************************************)
C16_InsufficientBalanceDetails ==
    (Invoked /\ RejectedForBalance) =>
        LET e == result.cause
            ref == IF args.order_type = "MARKET" THEN marketPrice ELSE args.price[1]
        IN IF args.side = "BUY"
           THEN /\ e.asset = USDT
                /\ e.held = SnapshotFree(USDT)
                /\ e.required100 =
                      IF args.order_type = "MARKET"
                      THEN args.quantity * marketPrice * 101
                      ELSE args.quantity * args.price[1] * 100
                /\ 2 * Abs(e.max_possible_micro * ref - e.held * 1000000) <= ref
           ELSE /\ e.asset = base_asset(args.symbol)
                /\ e.held = SnapshotFree(e.asset)
                /\ e.wanted = args.quantity
                /\ e.max_possible = e.held

\* a MARKET BUY rejected with a non-zero suggestion
C16_Witness ==
    /\ Invoked /\ RejectedForBalance
    /\ args.side = "BUY" /\ args.order_type = "MARKET"
    /\ result.cause.max_possible_micro > 0

(***************************************************************************)
(* C17: within one place_order invocation each gateway operation           *)
(* (get_account, get_symbol_ticker, create_order, get_order) is called at  *)
(* most once, and a gateway failure ends the invocation as a failure       *)
(* raised to the caller, after which no gateway call is made.              *)
(***************************************************************************)
CallCount(name) == Cardinality({i \in DOMAIN calls : calls[i] = name})

C17_NoRetry ==
    /\ [](\A name \in {"get_account", "get_symbol_ticker", "create_order", "get_order"} :
            CallCount(name) <= 1)
    /\ [](gatewayError # None => Finished /\ result.status = "raised")
    /\ [][gatewayError # None => calls' = calls]_vars

\* the third gateway call of the invocation failed
C17_Witness ==
    /\ gatewayError # None
    /\ Len(calls) = 3
    /\ Finished

(***************************************************************************)
(* C18: for each operation of the core (place_order, get_current_price,    *)
(* get_account_balance, get_position_info, get_open_orders, cancel_order,  *)
(* get_order_details, get_symbol_info), if the gateway call it makes       *)
(* fails, the operation ends with an error raised to its caller that       *)
(* carries the gateway's exception, and returns no normal value.           *)
(***************************************************************************)
C18_EveryErrorReachesCaller ==
    gatewayError # None =>
        /\ pc = "done"
        /\ result.status = "raised"
        /\ result.cause = gatewayError[1]

\* cancel_order failed at the gateway and raised
C18_Witness ==
    /\ operation = "cancel_order"
    /\ gatewayError # None
    /\ result.status = "raised"

(***************************************************************************)
(* C19: when the gateway reports an exchange error with code c and message *)
(* m at any stage of place_order (balance fetch, price fetch, submission   *)
(* or order lookup), the error raised to the caller carries m and c        *)
(* unchanged in its text.                                                  *)
(***************************************************************************)
ExchangeErrors == {"BinanceAPIException", "BinanceOrderException"}

C19_ExchangeErrorVerbatim ==
    (operation = "place_order" /\ gatewayError # None
        /\ gatewayError[1].exc \in ExchangeErrors) =>
        /\ Finished
        /\ result.status = "raised"
        /\ Len(result.text) >= 4
        /\ result.text[2] = gatewayError[1].message
        /\ result.text[4] = gatewayError[1].code

\* the order was submitted and its lookup failed with an exchange error
C19_Witness ==
    /\ operation = "place_order"
    /\ gatewayError # None
    /\ gatewayError[1].exc = "BinanceAPIException"
    /\ calls[Len(calls)] = "get_order"
    /\ result.status = "raised"

(***************************************************************************)
(* C20: get_position_info called without a symbol returns exactly the      *)
(* balances whose free + locked amount is greater than zero, in the        *)
(* gateway's order, one entry per such asset, each with asset, free,       *)
(* locked and total = free + locked; an asset with zero total is never     *)
(* returned, and there are as many entries as balances with free > 0 or    *)
(* locked > 0.                                                             *)
(***************************************************************************)
HoldingsReturned ==
    /\ operation = "get_position_info"
    /\ pc = "done"
    /\ intent[1].symbol = None
    /\ result.status = "returned"

C20_HoldingsNonZero ==
    HoldingsReturned =>
        LET v == result.value
            nonzero == {i \in DOMAIN account :
                            account[i].free + account[i].locked > 0}
            Rank(i) == Cardinality({j \in nonzero : j <= i})
        IN /\ Len(v) = Cardinality(nonzero)
           /\ Len(v) = Cardinality({i \in DOMAIN account :
                                        account[i].free > 0 \/ account[i].locked > 0})
           /\ \A i \in nonzero :
                  v[Rank(i)] = [asset |-> account[i].asset,
                                free |-> account[i].free,
                                locked |-> account[i].locked,
                                total |-> account[i].free + account[i].locked]
           /\ \A k \in DOMAIN v : v[k].total > 0

\* an asset of which nothing is held was left out and one that is only
\* locked was kept
C20_Witness ==
    /\ HoldingsReturned
    /\ Len(result.value) < Len(account)
    /\ \E k \in DOMAIN result.value :
           result.value[k].free = 0 /\ result.value[k].locked > 0

C22_PriceNotApplicableForMarket ==
    \A i \in DOMAIN summaries :
        LET order_details == intent[1].order_details
        IN IF order_details.type = "MARKET"
           THEN summaries[i].price = "N/A"
           ELSE /\ "price" \in DOMAIN order_details
                /\ summaries[i].price = order_details.price

(***************************************************************************)
(* C23: the validation pipeline holds no shared mutable state.  For two    *)
(* place_order invocations running concurrently on one bot, under every    *)
(* interleaving, the outcome of each (which rejection, or which request is *)
(* submitted) is determined by its own intent and the gateway answers it   *)
(* received itself, and a step of one invocation writes nothing the other  *)
(* reads.                                                                  *)
(***************************************************************************)
\* the free amount, in the balances this invocation was answered, of the
\* asset its side spends
OwnBalance(l) ==
    LET balances == l.seen_account[1]
        asset == IF l.args.side = "BUY" THEN USDT ELSE BTC
        i == CHOOSE i \in DOMAIN balances : balances[i].asset = asset
    IN balances[i].free

\* what this invocation needs, times 100, by its own intent and answers
OwnNeed100(l) ==
    IF l.args.side = "SELL" THEN l.args.quantity * 100
    ELSE IF l.args.order_type = "MARKET"
    THEN l.args.quantity * l.seen_price[1] * 101
    ELSE l.args.quantity * l.args.price[1] * 100

OwnOutcome(l) ==
    /\ l.held # None => l.seen_account # None /\ l.held[1] = OwnBalance(l)
    /\ l.current_price = l.seen_price
    /\ l.balanceGuard = "fail" =>
           /\ OwnBalance(l) * 100 < OwnNeed100(l)
           /\ l.result.status = "raised"
           /\ l.result.cause.held = OwnBalance(l)
    /\ l.balanceGuard = "pass" => OwnBalance(l) * 100 >= OwnNeed100(l)
    /\ l.deviationGuard = "fail" =>
           /\ Abs(l.args.price[1] - l.seen_price[1]) * 100 > 20 * l.seen_price[1]
           /\ l.result.status = "raised"
    /\ l.deviationGuard = "pass" =>
           Abs(l.args.price[1] - l.seen_price[1]) * 100 <= 20 * l.seen_price[1]
    /\ l.order_params # None =>
           /\ l.order_params[1].symbol = l.args.symbol
           /\ l.order_params[1].side = l.args.side
           /\ l.order_params[1].type = l.args.order_type
           /\ l.order_params[1].quantity = l.args.quantity
           /\ l.args.order_type = "LIMIT" => l.order_params[1].price = l.args.price[1]
    /\ l.order_response # None =>
           l.order_response[1] = [orderId |-> l.order_response[1].orderId]
                                     @@ l.order_params[1]

C23_NoSharedState ==
    /\ [](\A w \in Workers : OwnOutcome(workers[w]))
    /\ [][\A w, v \in Workers :
             w # v /\ workers'[w] # workers[w] => workers'[v] = workers[v]]_vars

\* the same intent, run concurrently against different answers of the
\* exchange, was rejected in one invocation and submitted in the other
C23_Witness ==
    /\ workers[1].args = workers[2].args
    /\ workers[1].balanceGuard = "fail"
    /\ workers[1].pc = "done"
    /\ workers[2].balanceGuard = "pass"
    /\ workers[2].result.status = "returned"
    /\ workers[1].seen_account # workers[2].seen_account

(***************************************************************************)
(* C25: validation-to-submission is not transactional.  The core takes no  *)
(* lock between the balance read and the submission: while one invocation  *)
(* is between them, every step of the other stays enabled; and there is a  *)
(* reachable interleaving in which two concurrent BUY invocations both     *)
(* pass the Balance Guard against the same free quote balance and both     *)
(* have their order accepted although their required amounts together      *)
(* exceed that balance.                                                    *)
(***************************************************************************)
BetweenCheckAndSubmit(l) ==
    l.pc \in {"get_price_balance", "get_price_deviation", "create_order"}

C25_NotTransactional ==
    \A w, v \in Workers :
        (w # v /\ BetweenCheckAndSubmit(workers[w])
               /\ workers[v].pc \notin {"idle", "done"}) =>
            ENABLED (\/ WorkerGetAccount(v)
                     \/ WorkerGetPriceForBalance(v)
                     \/ WorkerGetPriceForDeviation(v)
                     \/ WorkerCreateOrder(v)
                     \/ WorkerGetOrderDetails(v))

\* both BUY orders were accepted; each alone fits the balance both read,
\* together they do not
C25_Witness ==
    /\ \A w \in Workers :
          /\ workers[w].args # None
          /\ workers[w].args.side = "BUY"
          /\ workers[w].balanceGuard = "pass"
          /\ workers[w].order_response # None
    /\ workers[1].seen_account = workers[2].seen_account
    /\ workers[1].held = workers[2].held
    /\ OwnNeed100(workers[1]) + OwnNeed100(workers[2]) > workers[1].held[1] * 100

(***************************************************************************)
(* C24: in the GUI every user action runs on a background thread of its    *)
(* own, and every mutation of UI state caused by a thread's result (price  *)
(* label, limit-price field, balance and margin labels, order and position *)
(* trees, dialogs, log text) is executed on the UI thread, never on the    *)
(* worker thread.                                                          *)
(***************************************************************************)
C24_UiMutationsOnUiThread ==
    \A m \in gui.mutations : m.thread = "ui"

(***************************************************************************)
(* C27: every GUI action (price fetch, order placement, cancel all orders, *)
(* close all positions, account refresh) invokes only operations of the    *)
(* core's public surface (BasicBot), and a GUI Place Order with a          *)
(* non-empty symbol and a positive quantity reaches the core's             *)
(* place_order.                                                            *)
(***************************************************************************)
C27_GuiUsesCoreSurface ==
    /\ \A m \in gui.botcalls :
           m \in {"get_account_balance", "get_symbol_info", "place_order",
                  "get_order_details", "cancel_order", "get_open_orders",
                  "get_position_info", "get_current_price", "format_order_summary"}
    /\ ("_place_order" \in gui.ran /\ gui.form.symbol # <<>>
            /\ gui.form.quantity # None /\ gui.form.quantity[1] > 0)
         => "place_order" \in gui.botcalls

(***************************************************************************)
(* C26: place_order never submits to the gateway a request whose quantity  *)
(* is zero or negative: every intent with quantity <= 0, for either side   *)
(* and any order type, ends rejected, whether it comes through the core    *)
(* directly or through the single-command CLI.                             *)
(***************************************************************************)
C26_QuantityPositive ==
    /\ \A i \in DOMAIN submitted : submitted[i].quantity > 0
    /\ (Finished /\ args # None /\ args.quantity <= 0) => result.status = "raised"

(***************************************************************************)
(* C28: if place_order ends with a failure raised to the caller, no order  *)
(* was accepted by the exchange during that invocation; equivalently,      *)
(* whenever create_order succeeds, place_order returns the order outcome.  *)
(***************************************************************************)
C28_FailureMeansNoOrder ==
    (operation = "place_order" /\ Finished) =>
        /\ result.status = "raised" => order_response = None
        /\ order_response # None => result.status = "returned"

(***************************************************************************)
(* C29: the suggested maximum quantity is a usable correction: after a BUY *)
(* is rejected for insufficient balance, the same intent with the quantity *)
(* set to the suggested maximum, against the same balances and the same    *)
(* market price, passes the Balance Guard, for MARKET as well as LIMIT.    *)
(***************************************************************************)
C29_SuggestionPasses ==
    pc = "resubmitted" => balanceGuard = "pass"

(***************************************************************************)
(* C30: place_order_interactive calls bot.place_order at most once per     *)
(* run, and only after the user chose a valid side (1 or 2) and order type *)
(* (1 to 4), entered a quantity > 0, a price > 0 when the type is LIMIT or *)
(* STOP, a stop price > 0 when the type is STOP_MARKET or STOP, and        *)
(* answered 'y' to the confirmation; on every other path it ends without   *)
(* an order-submitting call.                                               *)
(***************************************************************************)
Positive(value) ==
    value # None /\ value[1].kind = "number" /\ value[1].v > 0

C30_OrderOnlyAfterValidation ==
    /\ Len(cli.orders) <= 1
    /\ cli.orders # <<>> =>
        /\ cli.side_choice \in {Some(1), Some(2)}
        /\ cli.type_choice \in {Some(1), Some(2), Some(3), Some(4)}
        /\ Positive(cli.quantity)
        /\ cli.type_choice \in {Some(2), Some(4)} => Positive(cli.price)
        /\ cli.type_choice \in {Some(3), Some(4)} => Positive(cli.stop_price)
        /\ cli.confirm \in {Some("y"), Some("Y")}

====
